---- MODULE Spec2Model ----
(***************************************************************************)
(* Model of the recipe-app-api HTTP backend: the user API                 *)
(* (src/app/user/api.py), the recipe API (src/app/recipe/api.py) and the  *)
(* wait_for_db management command.                                         *)
(*                                                                         *)
(* The store (Django ORM tables of users and recipes) is a pair of         *)
(* functions from primary key to row.  No handler opens a transaction, so  *)
(* a step is what a request does up to and including one call that reads   *)
(* or writes a table: a handler that reads a row and later saves or        *)
(* deletes it takes two steps, and requests of other clients are served    *)
(* in between (`inflight` holds it meanwhile, with the instance it read).  *)
(* The last request answered and its response are kept in `resp` so that   *)
(* properties can speak about what a handler answered.  SpecWait steps the *)
(* wait_for_db command statement by statement.                             *)
(*                                                                         *)
(* Units: time is in minutes; price is in thousandths.  A request carries  *)
(* the price as a float; the recipe table keeps it in a Decimal column     *)
(* (the tests read it back as Decimal), which holds fewer places.          *)
(***************************************************************************)
EXTENDS Integers, Sequences, FiniteSets, Bags, TLC

VARIABLES
    users,          \* user table: id -> [email, password, name]
    nextUserId,     \* the user table's id sequence
    recipes,        \* recipe table: id -> [user, title, time_minutes, price, description, link]
    nextRecipeId,   \* the recipe table's id sequence
    now,            \* wall clock, minutes
    issued,         \* bearer tokens signed with SECRET_KEY so far
    resp,           \* the last request and the response it got
    inflight,       \* bag of requests between their read and their write of the store
    wait            \* the wait_for_db command and the database it waits for

vars == <<users, nextUserId, recipes, nextRecipeId, now, issued, resp, inflight, wait>>

----------------------------------------------------------------------------
(* Bounds of the model *)

MaxRecipes == 2
MaxUsers == 2
MaxTokens == 2
MaxTime == 45
ClockStep == 15
MaxClients == 2
MaxCounted == 30

(* Program constants *)

TOKEN_TTL == 30
MIN_PASSWORD_LENGTH == 5

(* authenticate() returns None when it resolves no user; ids start at 1 *)
None == 0

----------------------------------------------------------------------------
(* Input domains *)

Titles == {"", "T", "T2"}
Minutes == {-1, 0, 10}
Prices == {-10, 0, 5990, 5999}
Texts == {"", "D"}

Fields == {"title", "time_minutes", "price", "description", "link"}
RequiredFields == {"title", "time_minutes", "price"}

FullPayloads ==
    [title: Titles, time_minutes: Minutes, price: Prices,
     description: Texts, link: Texts]

Restrict(f, S) == [k \in S |-> f[k]]

(* RecipeSchema: title, time_minutes, price required; description, link optional *)
RecipePayloads ==
    {Restrict(f, S) : f \in FullPayloads,
                      S \in {T \in SUBSET Fields : RequiredFields \subseteq T}}

(* A PATCH body: the fields sent with a value, and the fields sent as null *)
Patch(set, null) == [set |-> set, null |-> null]

(* RecipePartialUpdateSchema: every field Optional[...] = None, so each may *)
(* be left out, sent with a value, or sent as null                          *)
PartialPayloads ==
    UNION {{Patch(Restrict(f, S), N) : f \in FullPayloads, N \in SUBSET (Fields \ S)} :
            S \in SUBSET Fields}

(* A few payloads, for the specifications that are not about field values *)
SomeRecipePayloads ==
    {p \in RecipePayloads : /\ DOMAIN p = RequiredFields
                            /\ p.title \in {"", "T"}
                            /\ p.time_minutes = 10
                            /\ p.price = 5990}

SomePartialPayloads ==
    {Patch([title |-> "T2"], {}), Patch([description |-> "D"], {})}

(* One field at a time: sent as null, or with a value create_recipe would   *)
(* refuse, or with the default                                              *)
EdgePartialPayloads ==
    {p \in PartialPayloads :
        \/ (DOMAIN p.set = {} /\ p.null \in {{"title"}, {"price"}})
        \/ (p.null = {} /\ p.set \in {[title |-> ""], [price |-> -10],
                                      [description |-> ""]})}

Emails == {"a@x.com", "A@x.com", "b@x.com"}
Passwords == {"abcd", "abcde", "secret99"}
Names == {"A", "B"}

UserCreatePayloads == [email: Emails, password: Passwords, name: Names]
TokenCreatePayloads == [email: Emails, password: Passwords \cup {""}]
UserUpdatePayloads == [name: Names]
UserPasswordUpdatePayloads == [password: Passwords]

(* A few payloads, for the specifications that are not about their values *)
SomeUserCreatePayloads == {[email |-> "b@x.com", password |-> "abcde", name |-> "B"]}
SomeTokenCreatePayloads ==
    {[email |-> "a@x.com", password |-> "abcde"],
     [email |-> "b@x.com", password |-> "abcde"]}
SomeUserUpdatePayloads == {[name |-> "B"]}
SomeUserPasswordUpdatePayloads == {[password |-> "secret99"]}

NoPayload == [unparsed |-> TRUE]

----------------------------------------------------------------------------
(* Bearer tokens *)

NoHeader == [kind |-> "none", user_id |-> 0, exp |-> 0, signed |-> FALSE]
Garbage == [kind |-> "garbage", user_id |-> 0, exp |-> 0, signed |-> FALSE]

Jwt(user_id, exp, signed) ==
    [kind |-> "jwt", user_id |-> user_id, exp |-> exp, signed |-> signed]

(* jwt.encode({'user_id': user_id, 'exp': utcnow() + 30 minutes}, SECRET_KEY) *)
create_jwt_token(user_id) == Jwt(user_id, now + TOKEN_TTL, TRUE)

(* What a client can put in the Authorization header: nothing, a string     *)
(* that is no JWT, a token the server signed, or a copy of one signed       *)
(* with another key.                                                        *)
Credentials ==
    {NoHeader, Garbage} \cup issued
        \cup {Jwt(t.user_id, t.exp, FALSE) : t \in issued}

(* Mutant: jwt.decode(..., options={'verify_exp': False}) *)
decode_jwt_token_NoExpiry(token) ==
    IF token.kind # "jwt" \/ ~token.signed THEN None ELSE token.user_id

(* jwt.decode(token, SECRET_KEY, algorithms=['HS256']): the user_id of the  *)
(* payload, or None on InvalidTokenError (bad signature, not a JWT) and on  *)
(* ExpiredSignatureError (PyJWT 2: exp <= now).                             *)
decode_jwt_token(token) ==
    IF token.kind # "jwt" \/ ~token.signed THEN None
    ELSE IF token.exp <= now THEN None
    ELSE token.user_id

(* HttpBearer.__call__ and JWTAuth.authenticate: the user's id, or None *)
authenticate(cred) ==
    IF cred.kind = "none" THEN None
    ELSE LET user_id == decode_jwt_token(cred)
         IN  IF user_id = None THEN None
             ELSE IF user_id \in DOMAIN users THEN user_id
             ELSE None

----------------------------------------------------------------------------
(* Responses *)

Detail(msg) == [detail |-> msg]

Response(op, cred, caller, rid, payload, status, body) ==
    [op |-> op, cred |-> cred, caller |-> caller, rid |-> rid,
     payload |-> payload, status |-> status, body |-> body]

NoResponse == Response("none", NoHeader, None, 0, NoPayload, 0, Detail(""))

(* The response is read before the next one is written *)
Idle == resp = NoResponse

(* A request that has read the store and not yet written it: what it was    *)
(* sent, the instance its handler holds in memory, and the statement it     *)
(* runs next: its write, or the INSERT of a save() whose UPDATE matched no  *)
(* row.                                                                     *)
Request(op, cred, caller, rid, payload, instance) ==
    [op |-> op, cred |-> cred, caller |-> caller, rid |-> rid,
     payload |-> payload, instance |-> instance, at |-> "write"]

Inserting(q) == [q EXCEPT !.at = "insert"]

InFlight == BagToSet(inflight)

(* The number of requests of `op` the server is handling *)
Handling(op) ==
    LET Ops == {q \in InFlight : q.op = op}
    IN  BagCardinality([q \in Ops |-> inflight[q]])

----------------------------------------------------------------------------
(* Recipe API handlers: each yields [status, body, recipes, nextRecipeId]   *)

Result(status, body, table, seq) ==
    [status |-> status, body |-> body, table |-> table, seq |-> seq]

(* The handler has answered nothing yet: it holds `instance` and goes on *)
Pending(instance, table, seq) == Result(0, instance, table, seq)

(* payload.dict(): every field of RecipeSchema, defaults filled in *)
RecipeDict(payload) ==
    [title |-> payload.title,
     time_minutes |-> payload.time_minutes,
     price |-> payload.price,
     description |-> IF "description" \in DOMAIN payload THEN payload.description ELSE "",
     link |-> IF "link" \in DOMAIN payload THEN payload.link ELSE ""]

(* RecipeOutSchema.from_orm(recipe) *)
RecipeOut(id, row) ==
    [id |-> id, title |-> row.title, time_minutes |-> row.time_minutes,
     price |-> row.price, description |-> row.description, link |-> row.link]

(* The price column is a Decimal of two places: a hundredth, in thousandths *)
PriceStep == 10

(* The values the price column may keep for a price written to it: the      *)
(* price itself when it has no more places than the column, else the        *)
(* nearest value the column can hold.  A price half way between two is      *)
(* rounded by whichever of the ORM and the database engine gets to it, to   *)
(* the even neighbour or away from zero, so both neighbours are kept.       *)
ColumnPrices(price) ==
    LET down == price - (price % PriceStep)
        up == down + PriceStep
    IN  IF price = down THEN {price}
        ELSE IF 2 * (price - down) < PriceStep THEN {down}
        ELSE IF 2 * (price - down) > PriceStep THEN {up}
        ELSE {down, up}

(* Recipe.objects.create(user=user, **fields) and recipe.save(): the row    *)
(* the statement stores, with `price` what the column keeps of d.price      *)
RecipeRow(user, d, price) ==
    [user |-> user, title |-> d.title, time_minutes |-> d.time_minutes,
     price |-> price, description |-> d.description, link |-> d.link]

(* Mutant: the lookup forgets user=user *)
Owned_AnyUser(user, recipe_id) == recipe_id \in DOMAIN recipes

(* Recipe.objects.get(id=recipe_id, user=user) finds a row *)
Owned(user, recipe_id) ==
    recipe_id \in DOMAIN recipes /\ recipes[recipe_id].user = user

(* Mutant: Recipe.objects.all() *)
FilterByUser_All(user) == DOMAIN recipes

(* Recipe.objects.filter(user=user) *)
FilterByUser(user) == {i \in DOMAIN recipes : recipes[i].user = user}

list_recipes(user) ==
    IF user = None THEN Result(200, {}, recipes, nextRecipeId)
    ELSE Result(200, {RecipeOut(id, recipes[id]) : id \in FilterByUser(user)},
                recipes, nextRecipeId)

(* Mutant: the price is not validated *)
create_recipe_NoPriceCheck(user, payload, price) ==
    IF user = None
    THEN Result(401, Detail("Authentication required"), recipes, nextRecipeId)
    ELSE IF payload.title = "" \/ payload.time_minutes < 0
    THEN Result(400, Detail("Invalid payload"), recipes, nextRecipeId)
    ELSE LET recipe == RecipeDict(payload)
             row == RecipeRow(user, recipe, price)
             id == nextRecipeId
         IN  Result(200, RecipeOut(id, recipe),
                    [i \in DOMAIN recipes \cup {id} |->
                        IF i = id THEN row ELSE recipes[i]],
                    nextRecipeId + 1)

(* The response is made from the instance in memory, which holds the price *)
(* as it came in the payload; the row holds what the column keeps of it.    *)
create_recipe(user, payload, price) ==
    IF user = None
    THEN Result(401, Detail("Authentication required"), recipes, nextRecipeId)
    ELSE IF payload.title = "" \/ payload.time_minutes < 0 \/ payload.price < 0
    THEN Result(400, Detail("Invalid payload"), recipes, nextRecipeId)
    ELSE LET recipe == RecipeDict(payload)
             row == RecipeRow(user, recipe, price)
             id == nextRecipeId
         IN  Result(200, RecipeOut(id, recipe),
                    [i \in DOMAIN recipes \cup {id} |->
                        IF i = id THEN row ELSE recipes[i]],
                    nextRecipeId + 1)

get_recipe_detail(user, recipe_id) ==
    IF user = None
    THEN Result(401, Detail("Authentication required"), recipes, nextRecipeId)
    ELSE IF Owned(user, recipe_id)
    THEN Result(200, RecipeOut(recipe_id, recipes[recipe_id]), recipes, nextRecipeId)
    ELSE Result(404, Detail("Recipe not found"), recipes, nextRecipeId)

(* A model instance in memory: its attribute values, and the attributes     *)
(* that hold None                                                           *)
Instance(row, none) == [row |-> row, none |-> none]

(* for attr, value in payload.dict(exclude_unset=True).items(): setattr(...) *)
SetAttrs(row, payload) ==
    Instance([k \in DOMAIN row |->
                IF k \in DOMAIN payload.set THEN payload.set[k] ELSE row[k]],
             payload.null)

(* update_recipe up to the setattr loop: the lookup and its 404 *)
update_recipe(user, recipe_id, payload) ==
    IF user = None
    THEN Result(401, Detail("Authentication required"), recipes, nextRecipeId)
    ELSE IF Owned(user, recipe_id)
    THEN Pending(SetAttrs(recipes[recipe_id], payload), recipes, nextRecipeId)
    ELSE Result(404, Detail("Recipe not found"), recipes, nextRecipeId)

(* The columns of the recipe table are NOT NULL: saving None raises         *)
(* IntegrityError                                                           *)
NotNullViolation(instance) == instance.none # {}

(* recipe.save(), its first statement, and return                           *)
(* RecipeOutSchema.from_orm(recipe).  save() writes every column of the     *)
(* instance with an UPDATE of the row with its primary key; `price` is what *)
(* the column keeps of the instance's price, and the response is made from  *)
(* the instance.  When the UPDATE matches no row, save() goes on to an      *)
(* INSERT, a statement of its own.  IntegrityError is not                   *)
(* Recipe.DoesNotExist, so nothing catches it: the framework answers 500.   *)
recipe_save(recipe_id, instance, price) ==
    IF recipe_id \notin DOMAIN recipes
    THEN Pending(instance, recipes, nextRecipeId)
    ELSE IF NotNullViolation(instance)
    THEN Result(500, Detail("Server Error (500)"), recipes, nextRecipeId)
    ELSE LET row == RecipeRow(instance.row.user, instance.row, price)
         IN  Result(200, RecipeOut(recipe_id, instance.row),
                    [recipes EXCEPT ![recipe_id] = row], nextRecipeId)

(* recipe.save(), the INSERT after an UPDATE that matched no row: it stores *)
(* the instance under its primary key, and raises IntegrityError when a row *)
(* with that key has been stored meanwhile.                                 *)
recipe_save_insert(recipe_id, instance, price) ==
    IF NotNullViolation(instance) \/ recipe_id \in DOMAIN recipes
    THEN Result(500, Detail("Server Error (500)"), recipes, nextRecipeId)
    ELSE LET row == RecipeRow(instance.row.user, instance.row, price)
         IN  Result(200, RecipeOut(recipe_id, instance.row),
                    [i \in DOMAIN recipes \cup {recipe_id} |->
                        IF i = recipe_id THEN row ELSE recipes[i]],
                    nextRecipeId)

(* delete_recipe up to the lookup, and its 404; of the instance it holds,  *)
(* the handler uses the primary key only                                    *)
delete_recipe(user, recipe_id) ==
    IF user = None
    THEN Result(401, Detail("Authentication required"), recipes, nextRecipeId)
    ELSE IF Owned(user, recipe_id)
    THEN Pending(NoPayload, recipes, nextRecipeId)
    ELSE Result(404, Detail("Recipe not found"), recipes, nextRecipeId)

(* recipe.delete(): DELETE ... WHERE id = pk, whether or not the row is     *)
(* still there; the handler returns None, answered 200 with body null       *)
recipe_delete(recipe_id) ==
    Result(200, Detail("null"),
           [i \in DOMAIN recipes \ {recipe_id} |-> recipes[i]], nextRecipeId)

----------------------------------------------------------------------------
(* Recipe API requests.  NinjaAPI(auth=JWTAuth()) authenticates before the  *)
(* body is parsed and the handler runs: a falsy result is answered 401.     *)

RecipeIds == 1..(MaxRecipes + 1)

ApplyRecipe(op, cred, user, rid, payload, r) ==
    /\ recipes' = r.table
    /\ nextRecipeId' = r.seq
    /\ resp' = Response(op, cred, user, rid, payload, r.status, r.body)
    /\ UNCHANGED <<users, nextUserId, now, issued, inflight, wait>>

Unauthorized(op, cred, rid) ==
    /\ resp' = Response(op, cred, None, rid, NoPayload, 401, Detail("Unauthorized"))
    /\ UNCHANGED <<users, nextUserId, recipes, nextRecipeId, now, issued, inflight, wait>>

(* The handler has read the store; its next statement writes it *)
Suspend(op, cred, user, rid, payload, instance) ==
    /\ BagCardinality(inflight) < MaxClients
    /\ inflight' = inflight (+) SetToBag({Request(op, cred, user, rid, payload,
                                                  instance)})
    /\ UNCHANGED <<users, nextUserId, recipes, nextRecipeId, now, issued, resp, wait>>

(* The request q goes on to its write, which yields r, and is answered *)
ResumeRecipe(q, r) ==
    /\ recipes' = r.table
    /\ nextRecipeId' = r.seq
    /\ resp' = Response(q.op, q.cred, q.caller, q.rid, q.payload, r.status, r.body)
    /\ inflight' = inflight (-) SetToBag({q})
    /\ UNCHANGED <<users, nextUserId, now, issued, wait>>

ListRecipes ==
    /\ Idle
    /\ \E cred \in Credentials :
        LET user == authenticate(cred)
        IN  IF user = None THEN Unauthorized("list_recipes", cred, 0)
            ELSE ApplyRecipe("list_recipes", cred, user, 0, NoPayload,
                             list_recipes(user))

CreateRecipe(Payloads) ==
    /\ Idle
    /\ \E cred \in Credentials :
        LET user == authenticate(cred)
        IN  IF user = None THEN Unauthorized("create_recipe", cred, 0)
            ELSE \E payload \in Payloads :
                 \E price \in ColumnPrices(payload.price) :
                    LET r == create_recipe(user, payload, price)
                    IN  /\ r.seq <= MaxRecipes + 1
                        /\ ApplyRecipe("create_recipe", cred, user, 0, payload, r)

GetRecipeDetail ==
    /\ Idle
    /\ \E cred \in Credentials, rid \in RecipeIds :
        LET user == authenticate(cred)
        IN  IF user = None THEN Unauthorized("get_recipe_detail", cred, rid)
            ELSE ApplyRecipe("get_recipe_detail", cred, user, rid, NoPayload,
                             get_recipe_detail(user, rid))

(* PATCH /{recipe_id} up to Recipe.objects.get and the setattr loop *)
UpdateRecipe(Payloads) ==
    /\ Idle
    /\ \E cred \in Credentials, rid \in RecipeIds :
        LET user == authenticate(cred)
        IN  IF user = None THEN Unauthorized("update_recipe", cred, rid)
            ELSE \E payload \in Payloads :
                    LET r == update_recipe(user, rid, payload)
                    IN  IF r.status = 0
                        THEN Suspend("update_recipe", cred, user, rid, payload, r.body)
                        ELSE ApplyRecipe("update_recipe", cred, user, rid, payload, r)

(* The UPDATE of q's save() matched no row: q goes on to the INSERT *)
Proceed(q) ==
    /\ inflight' = (inflight (-) SetToBag({q})) (+) SetToBag({Inserting(q)})
    /\ UNCHANGED <<users, nextUserId, recipes, nextRecipeId, now, issued, resp, wait>>

(* PATCH /{recipe_id} from recipe.save() on: the UPDATE *)
UpdateRecipeSave ==
    /\ Idle
    /\ \E q \in InFlight :
        /\ q.op = "update_recipe"
        /\ q.at = "write"
        /\ \E price \in ColumnPrices(q.instance.row.price) :
            LET r == recipe_save(q.rid, q.instance, price)
            IN  IF r.status = 0 THEN Proceed(q) ELSE ResumeRecipe(q, r)

(* PATCH /{recipe_id}: the INSERT of a save() whose UPDATE matched no row *)
UpdateRecipeSaveInsert ==
    /\ Idle
    /\ \E q \in InFlight :
        /\ q.op = "update_recipe"
        /\ q.at = "insert"
        /\ \E price \in ColumnPrices(q.instance.row.price) :
            ResumeRecipe(q, recipe_save_insert(q.rid, q.instance, price))

(* DELETE /{recipe_id} up to Recipe.objects.get *)
DeleteRecipe ==
    /\ Idle
    /\ \E cred \in Credentials, rid \in RecipeIds :
        LET user == authenticate(cred)
        IN  IF user = None THEN Unauthorized("delete_recipe", cred, rid)
            ELSE LET r == delete_recipe(user, rid)
                 IN  IF r.status = 0
                     THEN Suspend("delete_recipe", cred, user, rid, NoPayload, r.body)
                     ELSE ApplyRecipe("delete_recipe", cred, user, rid, NoPayload, r)

(* DELETE /{recipe_id} from recipe.delete() on *)
DeleteRecipeDelete ==
    /\ Idle
    /\ \E q \in InFlight :
        /\ q.op = "delete_recipe"
        /\ ResumeRecipe(q, recipe_delete(q.rid))

(* The client reads the response *)
Receive ==
    /\ ~Idle
    /\ resp' = NoResponse
    /\ UNCHANGED <<users, nextUserId, recipes, nextRecipeId, now, issued, inflight, wait>>

----------------------------------------------------------------------------
(* User API handlers: each yields [status, body, table, seq]                *)

(* user.set_password(raw): a salted hash, never the raw password *)
Hash(raw) == <<"pbkdf2_sha256", raw>>

(* user.check_password(raw) *)
CheckPassword(row, raw) == row.password = Hash(raw)

(* UserOutSchema.from_orm(user) *)
UserOut(row) == [email |-> row.email, name |-> row.name]

(* user_model.objects.create_user(email=, password=, name=) *)
CreateUserRow(email, password, name) ==
    [email |-> email, password |-> Hash(password), name |-> name]

(* user_model.objects.filter(email=email).exists() *)
EmailExists(email) == \E i \in DOMAIN users : users[i].email = email

(* Mutant: min_length=4 *)
PasswordValid_MinFour(password) == Len(password) >= 4

(* Field(..., min_length=5) of UserCreateSchema / UserPasswordUpdateSchema *)
PasswordValid(password) == Len(password) >= MIN_PASSWORD_LENGTH

ValidationError == Detail("ensure this value has at least 5 characters")

(* create_user up to the exists() query, and its 400 *)
create_user(user_in) ==
    IF ~PasswordValid(user_in.password)
    THEN Result(422, ValidationError, users, nextUserId)
    ELSE IF EmailExists(user_in.email)
    THEN Result(400, Detail("User with this email already exists."), users, nextUserId)
    ELSE Pending(NoPayload, users, nextUserId)

(* The user table's unique index on email: an INSERT of a stored email      *)
(* raises IntegrityError.                                                   *)
UniqueViolation(email) == \E i \in DOMAIN users : users[i].email = email

(* The id sequence after an INSERT that the unique index refuses.  The id   *)
(* is drawn before the index is checked: a PostgreSQL sequence (the engine  *)
(* wait_for_db waits for through psycopg2) never gives a drawn value back,  *)
(* an engine that numbers the row inside the failed statement does.  The    *)
(* settings that name the engine are not part of the sources, so both       *)
(* outcomes are kept.                                                       *)
SeqAfterRefusedInsert == {nextUserId, nextUserId + 1}

(* user = user_model.objects.create_user(...); return Response(..., 201).   *)
(* Nothing in create_user catches the IntegrityError: the framework answers *)
(* 500, and the sequence is left at seq.                                    *)
create_user_insert(user_in, seq) ==
    IF UniqueViolation(user_in.email)
    THEN Result(500, Detail("Server Error (500)"), users, seq)
    ELSE LET row == CreateUserRow(user_in.email, user_in.password, user_in.name)
             id == nextUserId
         IN  Result(201, UserOut(row),
                    [i \in DOMAIN users \cup {id} |->
                        IF i = id THEN row ELSE users[i]],
                    nextUserId + 1)

(* Mutant: the user is looked up by email and the password is not checked *)
AuthenticateCredentials_EmailOnly(email, password) ==
    LET match == {i \in DOMAIN users : users[i].email = email}
    IN  IF match = {} THEN None ELSE CHOOSE i \in match : TRUE

(* django.contrib.auth.authenticate(username=email, password=password) *)
AuthenticateCredentials(email, password) ==
    LET match == {i \in DOMAIN users :
                    users[i].email = email /\ CheckPassword(users[i], password)}
    IN  IF match = {} THEN None ELSE CHOOSE i \in match : TRUE

create_token(payload) ==
    LET user == AuthenticateCredentials(payload.email, payload.password)
    IN  IF user # None
        THEN Result(200, [access |-> create_jwt_token(user)], users, nextUserId)
        ELSE Result(400, Detail("Invalid credentials"), users, nextUserId)

list_users == Result(200, {UserOut(users[i]) : i \in DOMAIN users}, users, nextUserId)

(* update_user_name up to user.name = data.name: the lookup and its 404 *)
update_user_name(user_id, data) ==
    IF user_id \in DOMAIN users
    THEN Pending([users[user_id] EXCEPT !.name = data.name], users, nextUserId)
    ELSE Result(404, Detail("User not found"), users, nextUserId)

(* update_user_password up to user.set_password(data.password) *)
update_user_password(user_id, data) ==
    IF ~PasswordValid(data.password)
    THEN Result(422, ValidationError, users, nextUserId)
    ELSE IF user_id \in DOMAIN users
    THEN Pending([users[user_id] EXCEPT !.password = Hash(data.password)],
                 users, nextUserId)
    ELSE Result(404, Detail("User not found"), users, nextUserId)

(* user.save(); return UserOutSchema.from_orm(user): every column of the    *)
(* instance is written over the stored row.  No request removes a user, so  *)
(* the UPDATE of save() always matches the row the handler read.            *)
user_save(user_id, instance) ==
    Result(200, UserOut(instance), [users EXCEPT ![user_id] = instance], nextUserId)

retrieve_authenticated_user(user) ==
    IF user # None
    THEN Result(200, UserOut(users[user]), users, nextUserId)
    ELSE Result(401, Detail("Authentication required"), users, nextUserId)

----------------------------------------------------------------------------
(* User API requests.  /token and POST /users take no credentials; the      *)
(* other four are declared auth=JWTAuth().                                  *)

UserIds == 1..(MaxUsers + 1)

ApplyUser(op, cred, user, rid, payload, r) ==
    /\ users' = r.table
    /\ nextUserId' = r.seq
    /\ resp' = Response(op, cred, user, rid, payload, r.status, r.body)
    /\ UNCHANGED <<recipes, nextRecipeId, now, issued, inflight, wait>>

(* The request q goes on to its write, which yields r, and is answered *)
ResumeUser(q, r) ==
    /\ users' = r.table
    /\ nextUserId' = r.seq
    /\ resp' = Response(q.op, q.cred, q.caller, q.rid, q.payload, r.status, r.body)
    /\ inflight' = inflight (-) SetToBag({q})
    /\ UNCHANGED <<recipes, nextRecipeId, now, issued, wait>>

(* POST /users up to the exists() query.  A registration goes on to its     *)
(* insert while the table has room for it and the id it may draw is one a   *)
(* request can name.                                                        *)
CreateUser(Payloads) ==
    /\ Idle
    /\ \E user_in \in Payloads :
        LET r == create_user(user_in)
        IN  IF r.status = 0
            THEN /\ Cardinality(DOMAIN users) + Handling("create_user") < MaxUsers
                 /\ nextUserId + Handling("create_user") \in UserIds
                 /\ Suspend("create_user", NoHeader, None, 0, user_in, r.body)
            ELSE ApplyUser("create_user", NoHeader, None, 0, user_in, r)

(* POST /users from objects.create_user(...) on *)
CreateUserInsert ==
    /\ Idle
    /\ \E q \in InFlight :
        /\ q.op = "create_user"
        /\ \E seq \in SeqAfterRefusedInsert :
            ResumeUser(q, create_user_insert(q.payload, seq))

CreateToken(Payloads) ==
    /\ Idle
    /\ \E payload \in Payloads :
        LET r == create_token(payload)
        IN  /\ resp' = Response("create_token", NoHeader, None, 0, payload,
                                r.status, r.body)
            /\ issued' = IF r.status = 200 THEN issued \cup {r.body.access} ELSE issued
            /\ Cardinality(issued') <= MaxTokens
            /\ UNCHANGED <<users, nextUserId, recipes, nextRecipeId, now, inflight, wait>>

ListUsers ==
    /\ Idle
    /\ \E cred \in Credentials :
        LET user == authenticate(cred)
        IN  IF user = None THEN Unauthorized("list_users", cred, 0)
            ELSE ApplyUser("list_users", cred, user, 0, NoPayload, list_users)

(* PATCH /users/{user_id} up to objects.get and the assignment *)
UpdateUserName(Payloads) ==
    /\ Idle
    /\ \E cred \in Credentials, user_id \in UserIds :
        LET user == authenticate(cred)
        IN  IF user = None THEN Unauthorized("update_user_name", cred, user_id)
            ELSE \E data \in Payloads :
                    LET r == update_user_name(user_id, data)
                    IN  IF r.status = 0
                        THEN Suspend("update_user_name", cred, user, user_id, data, r.body)
                        ELSE ApplyUser("update_user_name", cred, user, user_id, data, r)

(* PATCH /users/{user_id} from user.save() on *)
UpdateUserNameSave ==
    /\ Idle
    /\ \E q \in InFlight :
        /\ q.op = "update_user_name"
        /\ ResumeUser(q, user_save(q.rid, q.instance))

(* PATCH /users/{user_id}/password up to objects.get and set_password *)
UpdateUserPassword(Payloads) ==
    /\ Idle
    /\ \E cred \in Credentials, user_id \in UserIds :
        LET user == authenticate(cred)
        IN  IF user = None THEN Unauthorized("update_user_password", cred, user_id)
            ELSE \E data \in Payloads :
                    LET r == update_user_password(user_id, data)
                    IN  IF r.status = 0
                        THEN Suspend("update_user_password", cred, user, user_id,
                                     data, r.body)
                        ELSE ApplyUser("update_user_password", cred, user, user_id,
                                       data, r)

(* PATCH /users/{user_id}/password from user.save() on *)
UpdateUserPasswordSave ==
    /\ Idle
    /\ \E q \in InFlight :
        /\ q.op = "update_user_password"
        /\ ResumeUser(q, user_save(q.rid, q.instance))

RetrieveAuthenticatedUser ==
    /\ Idle
    /\ \E cred \in Credentials :
        LET user == authenticate(cred)
        IN  IF user = None THEN Unauthorized("retrieve_authenticated_user", cred, 0)
            ELSE ApplyUser("retrieve_authenticated_user", cred, user, 0, NoPayload,
                           retrieve_authenticated_user(user))

(* Time passes *)
Tick ==
    /\ Idle
    /\ now + ClockStep <= MaxTime
    /\ now' = now + ClockStep
    /\ UNCHANGED <<users, nextUserId, recipes, nextRecipeId, issued, resp, inflight, wait>>

----------------------------------------------------------------------------
(* manage.py wait_for_db: Command.handle, one statement per step, and the   *)
(* database it polls.                                                       *)

Inc(n) == IF n < MaxCounted THEN n + 1 ELSE n

Command(pc, db, db_up, waiting, unavailable, slept, available) ==
    [pc |-> pc, db |-> db, db_up |-> db_up, waiting |-> waiting,
     unavailable |-> unavailable, slept |-> slept, available |-> available]

NoCommand == Command("off", "down", FALSE, FALSE, 0, 0, FALSE)

(* Mutant: the except clause sets db_up too *)
CheckPasses_Always(db) == TRUE

(* self.check(databases=['default']) returns; it raises OperationalError    *)
(* while the database refuses connections                                   *)
CheckPasses(db) == db = "up"

(* self.stdout.write("Waiting for database..."); db_up = False *)
WaitStart ==
    /\ wait.pc = "start"
    /\ wait' = [wait EXCEPT !.pc = "check", !.waiting = TRUE, !.db_up = FALSE]
    /\ UNCHANGED <<users, nextUserId, recipes, nextRecipeId, now, issued, resp, inflight>>

(* while db_up is False: try: self.check(...); db_up = True                 *)
(* except: self.stdout.write("Database unavailable, waiting 1 second...")   *)
WaitCheck ==
    /\ wait.pc = "check"
    /\ wait' = IF CheckPasses(wait.db)
               THEN [wait EXCEPT !.db_up = TRUE, !.pc = "report"]
               ELSE [wait EXCEPT !.unavailable = Inc(@), !.pc = "sleep"]
    /\ UNCHANGED <<users, nextUserId, recipes, nextRecipeId, now, issued, resp, inflight>>

(* time.sleep(1), then the loop test again: db_up is still False *)
WaitSleep ==
    /\ wait.pc = "sleep"
    /\ wait' = [wait EXCEPT !.slept = Inc(@),
                            !.pc = IF wait.db_up THEN "report" ELSE "check"]
    /\ UNCHANGED <<users, nextUserId, recipes, nextRecipeId, now, issued, resp, inflight>>

(* self.stdout.write(self.style.SUCCESS('Database available!')) and return *)
WaitReport ==
    /\ wait.pc = "report"
    /\ wait' = [wait EXCEPT !.available = TRUE, !.pc = "done"]
    /\ UNCHANGED <<users, nextUserId, recipes, nextRecipeId, now, issued, resp, inflight>>

(* The database starts accepting connections, or stops *)
DbComesUp ==
    /\ wait.pc # "off"
    /\ wait.db = "down"
    /\ wait' = [wait EXCEPT !.db = "up"]
    /\ UNCHANGED <<users, nextUserId, recipes, nextRecipeId, now, issued, resp, inflight>>

DbGoesDown ==
    /\ wait.pc # "off"
    /\ wait.db = "up"
    /\ wait' = [wait EXCEPT !.db = "down"]
    /\ UNCHANGED <<users, nextUserId, recipes, nextRecipeId, now, issued, resp, inflight>>

(* The command's own steps *)
WaitForDb == WaitStart \/ WaitCheck \/ WaitSleep \/ WaitReport

----------------------------------------------------------------------------
(* Specifications *)

NoRecipes == [i \in {} |-> NoPayload]
NoUsers == [i \in {} |-> NoPayload]

TwoUsers ==
    [i \in {1, 2} |-> IF i = 1 THEN CreateUserRow("a@x.com", "abcde", "A")
                      ELSE CreateUserRow("b@x.com", "abcde", "B")]

(* A fresh database: the user API from the first registration on *)
InitUser ==
    /\ users = NoUsers
    /\ nextUserId = 1
    /\ recipes = NoRecipes
    /\ nextRecipeId = 1
    /\ now = 0
    /\ issued = {}
    /\ resp = NoResponse
    /\ inflight = EmptyBag
    /\ wait = NoCommand

NextUser ==
    \/ CreateUser(UserCreatePayloads)
    \/ CreateUserInsert
    \/ CreateToken(TokenCreatePayloads)
    \/ ListUsers
    \/ UpdateUserName(SomeUserUpdatePayloads)
    \/ UpdateUserNameSave
    \/ UpdateUserPassword(UserPasswordUpdatePayloads)
    \/ UpdateUserPasswordSave
    \/ RetrieveAuthenticatedUser
    \/ Receive

SpecUser == InitUser /\ [][NextUser]_vars

(* Two registered users who have just logged in; a third account has been   *)
(* removed since its token was issued.                                      *)
InitLoggedIn ==
    /\ users = TwoUsers
    /\ nextUserId = 4
    /\ recipes = NoRecipes
    /\ nextRecipeId = 1
    /\ now = 0
    /\ issued = {create_jwt_token(1), create_jwt_token(2), create_jwt_token(3)}
    /\ resp = NoResponse
    /\ inflight = EmptyBag
    /\ wait = NoCommand

OneUser == [i \in {1} |-> CreateUserRow("a@x.com", "abcde", "A")]

(* User 1 is registered and not logged in; a second account has been       *)
(* removed since its token was issued.                                      *)
InitAuth ==
    /\ users = OneUser
    /\ nextUserId = 3
    /\ recipes = NoRecipes
    /\ nextRecipeId = 1
    /\ now = 0
    /\ issued = {create_jwt_token(2)}
    /\ resp = NoResponse
    /\ inflight = EmptyBag
    /\ wait = NoCommand

(* Every route of the user API and the recipe API, while the clock runs *)
NextAuth ==
    \/ CreateUser(SomeUserCreatePayloads)
    \/ CreateUserInsert
    \/ CreateToken(SomeTokenCreatePayloads)
    \/ ListRecipes
    \/ CreateRecipe({[title |-> "T", time_minutes |-> 10, price |-> 5990]})
    \/ GetRecipeDetail
    \/ UpdateRecipe({Patch([title |-> "T2"], {})})
    \/ UpdateRecipeSave
    \/ UpdateRecipeSaveInsert
    \/ DeleteRecipe
    \/ DeleteRecipeDelete
    \/ ListUsers
    \/ UpdateUserName(SomeUserUpdatePayloads)
    \/ UpdateUserNameSave
    \/ UpdateUserPassword(SomeUserPasswordUpdatePayloads)
    \/ UpdateUserPasswordSave
    \/ RetrieveAuthenticatedUser
    \/ Tick
    \/ Receive

SpecAuth == InitAuth /\ [][NextAuth]_vars

(* The recipe API: who may see and change which recipe *)
NextGuard ==
    \/ ListRecipes
    \/ CreateRecipe(SomeRecipePayloads)
    \/ GetRecipeDetail
    \/ UpdateRecipe(SomePartialPayloads)
    \/ UpdateRecipeSave
    \/ UpdateRecipeSaveInsert
    \/ DeleteRecipe
    \/ DeleteRecipeDelete
    \/ Receive

SpecGuard == InitLoggedIn /\ [][NextGuard]_vars

(* User 1 logged in; user 2 created a recipe earlier and is away *)
InitFields ==
    /\ users = TwoUsers
    /\ nextUserId = 3
    /\ recipes = [i \in {1} |->
                    RecipeRow(2, RecipeDict([title |-> "T", time_minutes |-> 10,
                                             price |-> 5990, description |-> "D"]),
                              5990)]
    /\ nextRecipeId = 2
    /\ now = 0
    /\ issued = {create_jwt_token(1)}
    /\ resp = NoResponse
    /\ inflight = EmptyBag
    /\ wait = NoCommand

(* The recipe API: what is stored, over every payload the schemas admit *)
NextFields ==
    \/ ListRecipes
    \/ CreateRecipe(RecipePayloads)
    \/ GetRecipeDetail
    \/ UpdateRecipe(EdgePartialPayloads)
    \/ UpdateRecipeSave
    \/ UpdateRecipeSaveInsert
    \/ DeleteRecipe
    \/ DeleteRecipeDelete
    \/ Receive

SpecFields == InitFields /\ [][NextFields]_vars

(* A fresh database and registrations that pass the schema, MaxClients of   *)
(* them in the server at once                                               *)
RacePayloads == {u \in UserCreatePayloads : u.password = "abcde"}

NextRace ==
    \/ CreateUser(RacePayloads)
    \/ CreateUserInsert
    \/ Receive

SpecRace == InitUser /\ [][NextRace]_vars

(* wait_for_db started against a database that is up or down and may       *)
(* change at any moment; the command's process keeps running.               *)
InitWait ==
    /\ users = NoUsers
    /\ nextUserId = 1
    /\ recipes = NoRecipes
    /\ nextRecipeId = 1
    /\ now = 0
    /\ issued = {}
    /\ resp = NoResponse
    /\ inflight = EmptyBag
    /\ wait \in {Command("start", db, FALSE, FALSE, 0, 0, FALSE) : db \in {"down", "up"}}

NextWait ==
    \/ WaitStart
    \/ WaitCheck
    \/ WaitSleep
    \/ WaitReport
    \/ DbComesUp
    \/ DbGoesDown

SpecWait == InitWait /\ [][NextWait]_vars /\ WF_vars(WaitForDb)

----------------------------------------------------------------------------
(* Properties *)

ByIdOps == {"get_recipe_detail", "update_recipe", "delete_recipe"}

(* What the handler of `op` answers to `user` for `rid` in this state *)
Handle(op, user, rid, payload) ==
    CASE op = "get_recipe_detail" -> get_recipe_detail(user, rid)
      [] op = "update_recipe" -> update_recipe(user, rid, payload)
      [] op = "delete_recipe" -> delete_recipe(user, rid)

(* C1: get, update and delete by an authenticated user A on a recipe owned  *)
(* by another user answer 404, with the very body an id that was never      *)
(* allocated gets, and leave the recipe stored with every field and its     *)
(* owner unchanged.                                                         *)
C1_OtherOwnersRecipeIs404 ==
    [][\A rid \in DOMAIN recipes, a \in DOMAIN users :
        (/\ resp'.op \in ByIdOps
         /\ resp'.caller = a
         /\ resp'.rid = rid
         /\ recipes[rid].user # a)
        => /\ resp'.status = 404
           /\ resp'.status = Handle(resp'.op, a, nextRecipeId, resp'.payload).status
           /\ resp'.body = Handle(resp'.op, a, nextRecipeId, resp'.payload).body
           /\ rid \in DOMAIN recipes'
           /\ recipes'[rid] = recipes[rid]
           /\ recipes' = recipes]_vars

C1_Witness ==
    /\ resp.op = "update_recipe"
    /\ resp.caller # None
    /\ resp.rid \in DOMAIN recipes
    /\ recipes[resp.rid].user # resp.caller
    /\ resp.status = 404

(* C2: list_recipes answers an authenticated user with exactly the recipes  *)
(* that user owns: all of them, none of anybody else's, each as stored.     *)
C2_ListIsExactlyOwn ==
    /\ \A a \in DOMAIN users :
        {x.id : x \in list_recipes(a).body}
            = {i \in DOMAIN recipes : recipes[i].user = a}
    /\ (resp.op = "list_recipes" /\ resp.caller # None)
        => /\ resp.status = 200
           /\ {x.id : x \in resp.body}
                = {i \in DOMAIN recipes : recipes[i].user = resp.caller}
           /\ \A x \in resp.body : x = RecipeOut(x.id, recipes[x.id])

C2_Witness ==
    /\ resp.op = "list_recipes"
    /\ resp.status = 200
    /\ resp.body # {}
    /\ \E i \in DOMAIN recipes : recipes[i].user # resp.caller

(* C6: a delete is answered 200 only for a stored recipe of the caller,     *)
(* which it removes; an id that was removed is never stored again; and get, *)
(* update and delete by any authenticated user on an id that is not stored  *)
(* (removed, or never allocated) answer 404 and change nothing, so a        *)
(* repeated delete reports 404.                                             *)
C6_DeletedStaysGone ==
    [][/\ (resp'.op = "delete_recipe" /\ resp'.status = 200)
            => /\ resp'.rid \in DOMAIN recipes
               /\ recipes[resp'.rid].user = resp'.caller
               /\ DOMAIN recipes' = DOMAIN recipes \ {resp'.rid}
       /\ \A id \in 1..(nextRecipeId - 1) :
            id \notin DOMAIN recipes => id \notin DOMAIN recipes'
       /\ (/\ resp'.op \in ByIdOps
           /\ resp'.caller # None
           /\ resp'.rid \notin DOMAIN recipes)
            => /\ resp'.status = 404
               /\ recipes' = recipes]_vars

(* C5: update_recipe by the owner with a payload that supplies the fields S *)
(* answers 200, sets the fields of S to the supplied values, and leaves the *)
(* other fields, the id, the owner and every other recipe as they were.     *)
C5_PartialUpdateFrame ==
    [][(/\ resp'.op = "update_recipe"
        /\ resp'.caller # None
        /\ resp'.rid \in DOMAIN recipes
        /\ recipes[resp'.rid].user = resp'.caller)
        => LET rid == resp'.rid
               p == resp'.payload
           IN  /\ resp'.status = 200
               /\ resp'.body.id = rid
               /\ DOMAIN recipes' = DOMAIN recipes
               /\ nextRecipeId' = nextRecipeId
               /\ \A f \in DOMAIN p.set : recipes'[rid][f] = p.set[f]
               /\ \A f \in Fields \ (DOMAIN p.set \cup p.null) :
                    recipes'[rid][f] = recipes[rid][f]
               /\ recipes'[rid].user = recipes[rid].user
               /\ \A other \in DOMAIN recipes \ {rid} :
                    recipes'[other] = recipes[other]]_vars

InvalidRecipe(p) == p.title = "" \/ p.time_minutes < 0 \/ p.price < 0

(* C9: create_recipe with an empty title, a negative time_minutes or a      *)
(* negative price answers 400 'Invalid payload'; without a resolved         *)
(* identity it answers 401; and whenever it does not answer 200 no recipe   *)
(* is added and the id sequence does not move.                              *)
C9_CreateValidatesFirst ==
    [][resp'.op = "create_recipe"
        => /\ resp'.caller = None => resp'.status = 401
           /\ (resp'.caller # None /\ InvalidRecipe(resp'.payload))
                => /\ resp'.status = 400
                   /\ resp'.body = Detail("Invalid payload")
           /\ resp'.status # 200
                => /\ recipes' = recipes
                   /\ nextRecipeId' = nextRecipeId]_vars

C9_Witness ==
    /\ resp.op = "create_recipe"
    /\ resp.status = 400
    /\ resp.payload.title # ""
    /\ resp.payload.time_minutes >= 0
    /\ resp.payload.price < 0

(* The record a get is to return for payload p stored under id *)
Supplied(id, p) ==
    [id |-> id, title |-> p.title, time_minutes |-> p.time_minutes,
     price |-> p.price,
     description |-> IF "description" \in DOMAIN p THEN p.description ELSE "",
     link |-> IF "link" \in DOMAIN p THEN p.link ELSE ""]

(* C10: a create_recipe answered 200 adds exactly one recipe, owned by the  *)
(* caller, under an id that was never used; the other recipes stay as they  *)
(* were; and get_recipe_detail by the caller on the returned id then        *)
(* returns the supplied title, time_minutes and price, and the supplied     *)
(* description and link or "" where one was omitted.                        *)
C10_CreateGetRoundTrip ==
    [][(resp'.op = "create_recipe" /\ resp'.status = 200)
        => /\ resp'.caller # None
           /\ resp'.body.id \notin DOMAIN recipes
           /\ resp'.body.id >= nextRecipeId
           /\ nextRecipeId' > resp'.body.id
           /\ DOMAIN recipes' = DOMAIN recipes \cup {resp'.body.id}
           /\ \A i \in DOMAIN recipes : recipes'[i] = recipes[i]
           /\ recipes'[resp'.body.id].user = resp'.caller
           /\ resp'.body = Supplied(resp'.body.id, resp'.payload)
           /\ \A a \in DOMAIN users, id \in RecipeIds, p \in RecipePayloads :
                (resp'.caller = a /\ resp'.body.id = id /\ resp'.payload = p)
                    => /\ get_recipe_detail(a, id)'.status = 200
                       /\ get_recipe_detail(a, id)'.body = Supplied(id, p)]_vars

AuthEndpoints ==
    {"list_recipes", "create_recipe", "get_recipe_detail", "update_recipe",
     "delete_recipe", "list_users", "update_user_name", "update_user_password",
     "retrieve_authenticated_user"}

(* A request the server has taken past authentication in this step, to be  *)
(* answered in a later one                                                  *)
Admitted(q) == q.at = "write" /\ CopiesIn(q, inflight') > CopiesIn(q, inflight)

(* C3: on every endpoint that takes a bearer token, a request gets past     *)
(* authentication (is answered other than 401, at once or after its write)  *)
(* only if its token carries the server's signature, the clock is not past  *)
(* the token's expiry and its user_id is a stored user, who is then the     *)
(* caller; a missing, malformed, wrongly signed, expired or unknown-subject  *)
(* token is answered 401 and leaves the store as it was.                    *)
C3_BearerTokenGate ==
    [][/\ (resp'.op \in AuthEndpoints /\ inflight' = inflight)
            => LET c == resp'.cred
               IN  /\ resp'.status # 401
                        => /\ c.kind = "jwt"
                           /\ c.signed
                           /\ c \in issued
                           /\ now <= c.exp
                           /\ c.user_id \in DOMAIN users
                           /\ resp'.caller = c.user_id
                   /\ (\/ c.kind # "jwt"
                       \/ ~c.signed
                       \/ now > c.exp
                       \/ c.user_id \notin DOMAIN users)
                        => /\ resp'.status = 401
                           /\ resp'.caller = None
                           /\ users' = users
                           /\ nextUserId' = nextUserId
                           /\ recipes' = recipes
                           /\ nextRecipeId' = nextRecipeId
       /\ \A q \in BagToSet(inflight') :
            (Admitted(q) /\ q.op \in AuthEndpoints)
                => /\ q.cred.kind = "jwt"
                   /\ q.cred.signed
                   /\ q.cred \in issued
                   /\ now <= q.cred.exp
                   /\ q.cred.user_id \in DOMAIN users
                   /\ q.caller = q.cred.user_id
                   /\ resp' = resp
                   /\ users' = users
                   /\ recipes' = recipes
       /\ (resp'.op \in AuthEndpoints /\ inflight' # inflight)
            => /\ resp'.status # 401
               /\ \E q \in BagToSet(inflight) :
                    /\ inflight' = inflight (-) SetToBag({q})
                    /\ q.op = resp'.op
                    /\ q.cred = resp'.cred
                    /\ q.caller = resp'.caller
                    /\ q.caller # None]_vars

C3_Witness ==
    /\ resp.op = "delete_recipe"
    /\ resp.status = 401
    /\ resp.cred.kind = "jwt"
    /\ resp.cred.signed
    /\ resp.cred.exp < now
    /\ resp.cred.user_id \in DOMAIN users
    /\ resp.rid \in DOMAIN recipes
    /\ recipes[resp.rid].user = resp.cred.user_id

(* C4: no request authenticated as A changes the name or password of        *)
(* another user's account, or any recipe another user owns.                 *)
C4_ScopedToOwner ==
    [][\A b \in DOMAIN users :
        (resp'.caller # None /\ resp'.caller # b)
        => /\ b \in DOMAIN users'
           /\ users'[b].name = users[b].name
           /\ users'[b].password = users[b].password
           /\ \A i \in DOMAIN recipes :
                recipes[i].user = b
                    => (i \in DOMAIN recipes' /\ recipes'[i] = recipes[i])]_vars

(* C7: a registration whose password passes the schema is answered 400 and  *)
(* changes nothing when a stored user has exactly that email; otherwise it  *)
(* is answered 201 with the email and name, and adds exactly one user, with *)
(* that email and name, leaving the stored users as they were.              *)
C7_DuplicateEmailRejected ==
    [][(/\ resp'.op = "create_user"
        /\ Len(resp'.payload.password) >= MIN_PASSWORD_LENGTH)
        => LET u == resp'.payload
           IN  IF \E i \in DOMAIN users : users[i].email = u.email
               THEN /\ resp'.status = 400
                    /\ users' = users
                    /\ nextUserId' = nextUserId
               ELSE /\ resp'.status = 201
                    /\ resp'.body = [email |-> u.email, name |-> u.name]
                    /\ \E id \in DOMAIN users' \ DOMAIN users :
                        /\ DOMAIN users' = DOMAIN users \cup {id}
                        /\ users'[id].email = u.email
                        /\ users'[id].name = u.name
                    /\ \A i \in DOMAIN users : users'[i] = users[i]]_vars

(* C8: a registration with a password of fewer than 5 characters is         *)
(* answered 422 and creates no user; update_user_password with such a       *)
(* password is answered 422 (401 without a valid token) and leaves every    *)
(* stored password as it was.                                               *)
C8_ShortPasswordRejected ==
    [][/\ (resp'.op = "create_user" /\ Len(resp'.payload.password) < 5)
            => /\ resp'.status = 422
               /\ users' = users
               /\ nextUserId' = nextUserId
       /\ (/\ resp'.op = "update_user_password"
           /\ resp'.caller # None
           /\ Len(resp'.payload.password) < 5)
            => /\ resp'.status = 422
               /\ users' = users
       /\ (resp'.op = "update_user_password" /\ resp'.caller = None)
            => /\ resp'.status = 401
               /\ users' = users]_vars

C8_Witness ==
    /\ resp.op = "update_user_password"
    /\ resp.status = 422
    /\ resp.rid \in DOMAIN users
    /\ Len(resp.payload.password) = 4

(* The tokens create_token can hand out *)
AccessTokens ==
    {Jwt(i, e, TRUE) : i \in UserIds, e \in TOKEN_TTL..(MaxTime + TOKEN_TTL)}

(* C11: create_token answers 200 with an access token exactly when a stored *)
(* user has the email and the password sent; the token is signed, expires   *)
(* TOKEN_TTL after the request and names that user, so GET /me with it      *)
(* then returns that user's email and name.  For a wrong or blank password  *)
(* or an unknown email it answers 400, without an access token, and no      *)
(* token is issued.                                                         *)
C11_TokenOnlyForMatchingCredentials ==
    [][resp'.op = "create_token"
        => LET p == resp'.payload
               match == {i \in DOMAIN users :
                            /\ users[i].email = p.email
                            /\ users[i].password = Hash(p.password)}
           IN  IF match # {}
               THEN /\ resp'.status = 200
                    /\ resp'.body.access.kind = "jwt"
                    /\ resp'.body.access.signed
                    /\ resp'.body.access.user_id \in match
                    /\ resp'.body.access.exp = now + TOKEN_TTL
                    /\ resp'.body.access \in issued'
                    /\ \A t \in AccessTokens, i \in DOMAIN users :
                        (resp'.body.access = t /\ t.user_id = i)
                            => /\ authenticate(t)' = i
                               /\ retrieve_authenticated_user(authenticate(t))'.status = 200
                               /\ retrieve_authenticated_user(authenticate(t))'.body
                                    = [email |-> p.email, name |-> users[i].name]
               ELSE /\ resp'.status = 400
                    /\ "access" \notin DOMAIN resp'.body
                    /\ issued' = issued]_vars

C11_Witness ==
    /\ resp.op = "create_token"
    /\ resp.status = 200
    /\ resp.payload.password = "secret99"
    /\ users[resp.body.access.user_id].email = resp.payload.email
    /\ retrieve_authenticated_user(authenticate(resp.body.access)).body.email
            = resp.payload.email
    /\ \E i \in DOMAIN users : users[i].email # resp.payload.email

(* C12: however concurrent POST /users requests interleave, no two stored   *)
(* users share an email, and every registration that lost the race for its  *)
(* email was answered 400 "User with this email already exists." and with   *)
(* nothing else.                                                            *)
C12_RaceLoserGets400 ==
    /\ \A i, j \in DOMAIN users :
        i # j => users[i].email # users[j].email
    /\ (resp.op = "create_user" /\ resp.status # 201)
        => /\ resp.status = 400
           /\ resp.body = Detail("User with this email already exists.")

(* C13: after any create_recipe, update_recipe or delete_recipe every       *)
(* stored recipe has a non-empty title, time_minutes >= 0 and price >= 0,   *)
(* and a recipe that stays stored keeps the owner it was created with.      *)
C13_StoredRecipesValid ==
    [][/\ \A i \in DOMAIN recipes' :
            /\ recipes'[i].title # ""
            /\ recipes'[i].time_minutes >= 0
            /\ recipes'[i].price >= 0
       /\ \A i \in DOMAIN recipes \cap DOMAIN recipes' :
            recipes'[i].user = recipes[i].user
       /\ \A i \in DOMAIN recipes' \ DOMAIN recipes :
            recipes'[i].user = resp'.caller]_vars

(* C14: wait_for_db writes 'Database available!' and returns only after a   *)
(* check succeeded; a check that fails is followed by the "unavailable"     *)
(* line, a one-second sleep and another check; if the database comes up and *)
(* stays up the command terminates; if it never comes up the command never  *)
(* terminates.                                                              *)
C14_WaitsUntilCheckSucceeds ==
    /\ [](wait.pc \in {"report", "done"} => wait.db_up)
    /\ [](wait.available => wait.db_up)
    /\ [](wait.pc = "done" <=> wait.available)
    /\ [][(~wait.db_up /\ wait'.db_up) => (wait.pc = "check" /\ wait.db = "up")]_vars
    /\ [][(wait.pc = "check" /\ wait.db = "down" /\ wait'.pc # "check")
            => /\ wait'.pc = "sleep"
               /\ wait'.unavailable >= wait.unavailable
               /\ wait.unavailable < MaxCounted
                    => wait'.unavailable = wait.unavailable + 1]_vars
    /\ [][(wait.pc = "sleep" /\ wait'.pc # "sleep")
            => /\ wait'.pc = "check"
               /\ wait'.slept >= wait.slept
               /\ wait.slept < MaxCounted => wait'.slept = wait.slept + 1]_vars
    /\ [](wait.pc \in {"check", "report", "done"} => wait.slept = wait.unavailable)
    /\ <>[](wait.db = "up") => <>(wait.pc = "done")
    /\ [](wait.db = "down") => [](wait.pc # "done")

C14_Witness ==
    /\ wait.pc = "done"
    /\ wait.available
    /\ wait.waiting
    /\ wait.unavailable >= 2
    /\ wait.slept = wait.unavailable

====
